---- MODULE Spec2Model ----
(***************************************************************************)
(* A model of get.py: the batch fetcher that resolves a list of token      *)
(* addresses, fetches each one over HTTP, inserts the payload into a       *)
(* MongoDB collection and reports a per-address result mapping.            *)
(*                                                                         *)
(* Python strings are sequences of one-character strings, so that strip,   *)
(* split and the regular expressions of the source are computed character  *)
(* by character.  Python's None is the value None below.                   *)
(***************************************************************************)
EXTENDS Integers, Sequences, FiniteSets, TLC

VARIABLES
    pc,          \* position of the process in get.py
    environ,     \* os.environ after load_dotenv: key -> string or None
    env_file,    \* text of ROOT/.env, or None when the file does not exist
    args,        \* argparse namespace: address, out, delay
    dirs,        \* directories that exist on disk
    files,       \* regular files on disk: place -> text
    addresses,   \* main(): addresses
    is_out_dir,  \* main(): is_out_dir
    results,     \* main(): results, a Python dict (insertion-ordered pairs)
    run_ts,      \* main(): run_ts
    i,           \* main(): loop index i of enumerate(addresses, start=1)
    data,        \* main(): data, <<>> while unbound, <<payload>> once line 131 ran
    now,         \* the wall clock
    db,          \* documents of the MongoDB collection, in insertion order
    stdout,      \* JSON texts printed to standard output
    log,         \* the reads, requests, inserts, writes, sleeps and prints made
    exit_code    \* the process exit status once pc = "exit"

vars == <<pc, environ, env_file, args, dirs, files, addresses, is_out_dir,
          results, run_ts, i, data, now, db, stdout, log, exit_code>>

None == <<"None">>

(***************************************************************************)
(* Python string primitives                                                *)
(***************************************************************************)
\* the characters str.strip() removes and \s matches, among the characters a
\* string of this module can hold (code points below U+0100): the space, \t,
\* \n, \r, \f and, written below as the characters themselves, U+000B,
\* U+001C, U+001D, U+001E, U+001F, U+0085 and U+00A0
Whitespace ==
    {" ", "\n", "\t", "\r", "\f", "", "", "", "", "", "", " "}

\* bool(x) of a value that is a string or None
Truthy(v) == v # None /\ v # <<>>

RECURSIVE lstrip(_, _)
lstrip(s, chars) ==
    IF s # <<>> /\ Head(s) \in chars THEN lstrip(Tail(s), chars) ELSE s

RECURSIVE rstrip(_, _)
rstrip(s, chars) ==
    IF s # <<>> /\ s[Len(s)] \in chars
    THEN rstrip(SubSeq(s, 1, Len(s) - 1), chars) ELSE s

\* str.strip(chars); str.strip() is strip(s, Whitespace)
strip(s, chars) == rstrip(lstrip(s, chars), chars)

\* re.split(r"[<delims>]+", s) when runs, and s.split(<delim>) otherwise: the
\* pieces between delimiters, empty pieces at the ends (and, for str.split,
\* between adjacent delimiters) included
RECURSIVE SplitFrom(_, _, _, _, _, _, _)
SplitFrom(s, delims, runs, k, cur, acc, inRun) ==
    IF k > Len(s) THEN Append(acc, cur)
    ELSE IF s[k] \in delims
         THEN IF runs /\ inRun
              THEN SplitFrom(s, delims, runs, k + 1, cur, acc, TRUE)
              ELSE SplitFrom(s, delims, runs, k + 1, <<>>, Append(acc, cur), TRUE)
         ELSE SplitFrom(s, delims, runs, k + 1, Append(cur, s[k]), acc, FALSE)

re_split(s, delims) == SplitFrom(s, delims, TRUE, 1, <<>>, <<>>, FALSE)
str_split(s, delim) == SplitFrom(s, {delim}, FALSE, 1, <<>>, <<>>, FALSE)

\* [p.strip() for p in pieces if p.strip()]
RECURSIVE StripNonEmpty(_)
StripNonEmpty(pieces) ==
    IF pieces = <<>> THEN <<>>
    ELSE LET p == strip(Head(pieces), Whitespace)
         IN  IF p # <<>> THEN <<p>> \o StripNonEmpty(Tail(pieces))
             ELSE StripNonEmpty(Tail(pieces))

(***************************************************************************)
(* Address resolution: load_addresses and extract_addresses_from_env_file  *)
(***************************************************************************)
DEFAULT_ADDRESS ==
    <<"F", "U", "A", "f", "B", "o", "2", "j", "g", "k", "s">>
    \o <<"6", "g", "B", "4", "Z", "4", "L", "f", "Z", "k", "q">>
    \o <<"S", "Z", "g", "z", "N", "u", "c", "i", "s", "E", "H">>
    \o <<"q", "n", "N", "e", "b", "a", "R", "x", "M", "1", "P">>

\* the keys of the two "for key in (...)" loops, in loop order
AddressKeys == <<"ADDRESSES", "TOKENS", "TOKENS_LIST">>

KeyChars(key) ==
    CASE key = "ADDRESSES" -> <<"A", "D", "D", "R", "E", "S", "S", "E", "S">>
      [] key = "TOKENS" -> <<"T", "O", "K", "E", "N", "S">>
      [] key = "TOKENS_LIST" -> <<"T", "O", "K", "E", "N", "S", "_", "L", "I", "S", "T">>
      [] key = "HYPESCORE_API_KEY" ->
            <<"H", "Y", "P", "E", "S", "C", "O", "R", "E", "_", "A", "P", "I", "_", "K", "E", "Y">>
      [] key = "MONGO_URI" -> <<"M", "O", "N", "G", "O", "_", "U", "R", "I">>

UpperCase == 
    <<"A", "B", "C", "D", "E", "F", "G", "H", "I", "J", "K", "L", "M">>
    \o <<"N", "O", "P", "Q", "R", "S", "T", "U", "V", "W", "X", "Y", "Z">>
LowerCase == 
    <<"a", "b", "c", "d", "e", "f", "g", "h", "i", "j", "k", "l", "m">>
    \o <<"n", "o", "p", "q", "r", "s", "t", "u", "v", "w", "x", "y", "z">>

\* case folding of re.IGNORECASE
Fold(c) ==
    IF \E k \in 1..Len(UpperCase) : UpperCase[k] = c
    THEN LowerCase[CHOOSE k \in 1..Len(UpperCase) : UpperCase[k] = c]
    ELSE c

\* lines 59-60: v.strip().strip('"').strip("'"), split on [,\n]+, trimmed
EnvParts(v) ==
    StripNonEmpty(
        re_split(strip(strip(strip(v, Whitespace), {"\""}), {"'"}), {",", "\n"}))

\* first index >= p of text that holds no whitespace, Len(text) + 1 when none
RECURSIVE SkipSpace(_, _)
SkipSpace(text, p) ==
    IF p <= Len(text) /\ text[p] \in Whitespace THEN SkipSpace(text, p + 1) ELSE p

\* index of the first "\n" at or after p, Len(text) + 1 when none
RECURSIVE EndOfLine(_, _)
EndOfLine(text, p) ==
    IF p <= Len(text) /\ text[p] # "\n" THEN EndOfLine(text, p + 1) ELSE p

\* "^" under re.MULTILINE
LineStart(text, p) == p = 1 \/ text[p - 1] = "\n"

KeyAt(text, p, key) ==
    /\ p + Len(key) - 1 <= Len(text)
    /\ \A k \in 1..Len(key) : Fold(text[p + k - 1]) = Fold(key[k])

\* line 40: group 1 of ^KEY\s*=\s*(.+)$ matched at position p, None when the
\* pattern does not match there.  \s also matches "\n"; when only whitespace
\* follows the "=", the greedy \s* backs off to the last character that is not
\* a newline, which (.+) then takes.
MatchKeyLine(text, p, key) ==
    IF ~(LineStart(text, p) /\ KeyAt(text, p, key)) THEN None
    ELSE LET e == SkipSpace(text, p + Len(key))
         IN  IF e > Len(text) \/ text[e] # "=" THEN None
             ELSE LET q == e + 1
                      k == SkipSpace(text, q)
                      back == {x \in q..Len(text) : text[x] # "\n"}
                  IN  IF k <= Len(text)
                      THEN SubSeq(text, k, EndOfLine(text, k) - 1)
                      ELSE IF back = {} THEN None
                      ELSE LET x == CHOOSE y \in back : \A z \in back : z <= y
                           IN  SubSeq(text, x, EndOfLine(text, x) - 1)

\* re.search of line 40: the leftmost match
SearchKeyLine(text, key) ==
    LET hits == {p \in 1..Len(text) : MatchKeyLine(text, p, key) # None}
    IN  IF hits = {} THEN None
        ELSE MatchKeyLine(text, CHOOSE p \in hits : \A r \in hits : p <= r, key)

\* line 43: re.sub(r"^['\"]|['\"]$", "", val)
Unquote(val) ==
    LET a == IF val # <<>> /\ Head(val) \in {"'", "\""} THEN Tail(val) ELSE val
    IN  IF a # <<>> /\ a[Len(a)] \in {"'", "\""}
        THEN SubSeq(a, 1, Len(a) - 1) ELSE a

\* the number of characters {50,} of line 47 asks for
MinQuotedLen == 50

\* index of the first '"' after p, 0 when none
NextQuote(text, p) ==
    LET later == {x \in (p + 1)..Len(text) : text[x] = "\""}
    IN  IF later = {} THEN 0 ELSE CHOOSE x \in later : \A y \in later : x <= y

\* line 47: group 1 of the leftmost match of "([^"]{50,})", None when none
SearchQuoted(text) ==
    LET hits == {p \in 1..Len(text) :
                    /\ text[p] = "\""
                    /\ NextQuote(text, p) - p - 1 >= MinQuotedLen}
    IN  IF hits = {} THEN None
        ELSE LET p == CHOOSE x \in hits : \A y \in hits : x <= y
             IN  SubSeq(text, p + 1, NextQuote(text, p) - 1)

\* lines 39-45: the first key, in loop order, whose pattern matches the text
RECURSIVE ScanKeys(_, _)
ScanKeys(text, k) ==
    IF k > Len(AddressKeys) THEN None
    ELSE LET m == SearchKeyLine(text, KeyChars(AddressKeys[k]))
         IN  IF m # None
             THEN StripNonEmpty(
                      re_split(Unquote(strip(m, Whitespace)), {",", "\n"}))
             ELSE ScanKeys(text, k + 1)

extract_addresses_from_env_file(text) ==
    LET keyed == ScanKeys(text, 1)
        m == SearchQuoted(text)
    IN  IF keyed # None THEN keyed
        ELSE IF m # None THEN StripNonEmpty(str_split(m, ","))
        ELSE <<>>

\* lines 56-62: the index of the first key whose variable yields parts,
\* Len(AddressKeys) + 1 when none does
RECURSIVE FirstEnvKey(_, _)
FirstEnvKey(env, k) ==
    IF k > Len(AddressKeys) THEN k
    ELSE LET v == env[AddressKeys[k]]
         IN  IF Truthy(v) /\ EnvParts(v) # <<>> THEN k
             ELSE FirstEnvKey(env, k + 1)

\* load_addresses with the check of line 61 left out: the first variable that
\* is set wins, whether or not it yields an entry
load_addresses_first_set(env, file) ==
    LET set == {k \in 1..Len(AddressKeys) : Truthy(env[AddressKeys[k]])}
    IN  IF set # {}
        THEN EnvParts(env[AddressKeys[CHOOSE k \in set : \A m \in set : k <= m]])
        ELSE IF file # None /\ extract_addresses_from_env_file(file) # <<>>
             THEN extract_addresses_from_env_file(file)
        ELSE <<DEFAULT_ADDRESS>>

load_addresses(env, file) ==
    LET k == FirstEnvKey(env, 1)
    IN  IF k <= Len(AddressKeys) THEN EnvParts(env[AddressKeys[k]])
        ELSE IF file # None /\ extract_addresses_from_env_file(file) # <<>>
             THEN extract_addresses_from_env_file(file)
        ELSE <<DEFAULT_ADDRESS>>

\* the sources load_addresses reads, in order: one os.getenv per key up to the
\* key it returns from, then the .env file when no key returned
LoadReads(env, file) ==
    LET k == FirstEnvKey(env, 1)
        last == IF k <= Len(AddressKeys) THEN k ELSE Len(AddressKeys)
    IN  [n \in 1..last |-> [op |-> "getenv", key |-> AddressKeys[n]]]
        \o (IF k > Len(AddressKeys)
            THEN <<[op |-> "env_path.exists"]>>
                 \o (IF file # None THEN <<[op |-> "read_text"]>> ELSE <<>>)
            ELSE <<>>)

\* lines 98-101: the override alone when it is truthy, load_addresses otherwise
resolve(a, env, file) ==
    IF Truthy(a.address) THEN <<a.address>> ELSE load_addresses(env, file)

\* the sources lines 98-101 read
ResolveReads(a, env, file) ==
    IF Truthy(a.address) THEN <<>> ELSE LoadReads(env, file)

\* line 103 without the strip: blank entries dropped, the others kept as given
strip_addresses_keep_padding(addrs) ==
    SelectSeq(addrs, LAMBDA a : strip(a, Whitespace) # <<>>)

\* line 103: [a for a in (addr.strip() for addr in addresses) if a]
strip_addresses(addrs) == StripNonEmpty(addrs)

(***************************************************************************)
(* Output path: pathlib and the directory-or-file decision of lines 108-114*)
(***************************************************************************)
Separators == {"/", "\\"}

\* the element of a one-element set: Only({e : x \in {v}}) is e with the
\* value of v for x, v worked out once.  The fairness condition of FairSpec
\* asks whether a step is enabled, and in answering that the model checker
\* works an operator's argument out again at every use; the path operators
\* below therefore bind their arguments this way
Only(S) == CHOOSE w \in S : TRUE

\* the number of "/" at the start of s
RECURSIVE LeadingSlashes(_)
LeadingSlashes(s) ==
    IF s # <<>> /\ Head(s) = "/" THEN 1 + LeadingSlashes(Tail(s)) ELSE 0

\* the root of a POSIX path: "/" for a path that starts with "/", except
\* that exactly two leading slashes are kept; empty for a relative path
PathRoot(s) ==
    IF LeadingSlashes(s) = 2 THEN <<"/", "/">>
    ELSE IF LeadingSlashes(s) >= 1 THEN <<"/">>
    ELSE <<>>

\* the components of a path: the pieces between "/", the empty ones and the
\* "." ones dropped; ".." is kept
PathParts(s) ==
    SelectSeq(str_split(s, "/"), LAMBDA c : c # <<>> /\ c # <<".">>)

\* "/".join(parts)
RECURSIVE JoinParts(_)
JoinParts(parts) ==
    IF parts = <<>> THEN <<>>
    ELSE IF Len(parts) = 1 THEN parts[1]
    ELSE parts[1] \o <<"/">> \o JoinParts(Tail(parts))

\* str() of the path with a root and components; the empty path is "."
FormatPath(root, parts) ==
    IF root = <<>> /\ parts = <<>> THEN <<".">> ELSE root \o JoinParts(parts)

\* str(Path(s)), POSIX flavour: repeated and trailing "/" and "." components
\* are dropped; "\" is an ordinary character
PurePath(s) ==
    Only({Only({FormatPath(PathRoot(t), parts) : parts \in {PathParts(t)}}) :
            t \in {s}})

\* index of the last c in s, 0 when none
LastIndex(s, c) ==
    LET at == {k \in 1..Len(s) : s[k] = c}
    IN  IF at = {} THEN 0 ELSE CHOOSE k \in at : \A m \in at : m <= k

\* Path.name: the last component, empty for ".", "/" and "//"
PathName(p) ==
    Only({IF parts = <<>> THEN <<>> ELSE parts[Len(parts)] :
            parts \in {PathParts(p)}})

\* Path.parent: the path without its last component; a path with no
\* component is its own parent
PathParent(p) ==
    Only({Only({IF parts = <<>> THEN PurePath(t)
                ELSE Only({FormatPath(PathRoot(t), front) :
                            front \in {SubSeq(parts, 1, Len(parts) - 1)}}) :
                    parts \in {PathParts(t)}}) :
            t \in {p}})

\* Path.suffix: from the last "." of the name, unless the name starts or ends
\* with it
PathSuffix(p) ==
    LET name == PathName(p)
        d == LastIndex(name, ".")
    IN  IF 1 < d /\ d < Len(name) THEN SubSeq(name, d, Len(name)) ELSE <<>>

\* out / file_name: an absolute right-hand side replaces the left-hand side
PathJoin(p, name) ==
    Only({IF name # <<>> /\ name[1] = "/" THEN PurePath(name)
          ELSE IF t # <<>> /\ t[Len(t)] = "/" THEN PurePath(t \o name)
          ELSE PurePath(t \o <<"/">> \o name) :
            t \in {p}})

(***************************************************************************)
(* The file system under pathlib: which place a path names, and what       *)
(* exists() / is_dir(), mkdir(parents=True, exist_ok=True) and write_text  *)
(* do.  There are no symbolic links, and the directories a run may create  *)
(* in are writable.                                                        *)
(***************************************************************************)
\* the components with every "x/.." resolved; ".." at the root is the root
RECURSIVE Collapse(_, _, _)
Collapse(parts, acc, rooted) ==
    IF parts = <<>> THEN acc
    ELSE IF Head(parts) # <<".", ".">>
    THEN Collapse(Tail(parts), Append(acc, Head(parts)), rooted)
    ELSE IF acc # <<>> /\ acc[Len(acc)] # <<".", ".">>
    THEN Collapse(Tail(parts), SubSeq(acc, 1, Len(acc) - 1), rooted)
    ELSE IF rooted THEN Collapse(Tail(parts), acc, rooted)
    ELSE Collapse(Tail(parts), Append(acc, Head(parts)), rooted)

\* the place a path names: "//" is the root, "x/.." is where x is
OnDisk(p) ==
    Only({Only({FormatPath(IF PathRoot(t) = <<>> THEN <<>> ELSE <<"/">>, kept) :
                    kept \in {Collapse(PathParts(t), <<>>, PathRoot(t) # <<>>)}}) :
            t \in {p}})

\* the places that are directories whatever the run does: the current
\* directory, the root and the directories above the current one
Standing(q) ==
    \A parts \in {PathParts(q)} :
        \A k \in 1..Len(parts) : parts[k] = <<".", ".">>

\* a path and the paths of the directories it lies in
Lineage(p) ==
    UNION {{FormatPath(PathRoot(t), front) :
                front \in {SubSeq(PathParts(t), 1, k) : k \in 0..Len(PathParts(t))}} :
            t \in {p}}

\* the path of the first k components of p
Prefix(p, k) ==
    Only({FormatPath(PathRoot(p), front) : front \in {SubSeq(PathParts(p), 1, k)}})

\* line 112: out.exists() and out.is_dir(), every directory on the way
\* has to exist
is_dir(onDisk, p) ==
    \A q \in Lineage(p) : Standing(OnDisk(q)) \/ OnDisk(q) \in onDisk

\* lines 109-114, for a truthy args.out
classify_out(out, onDisk) ==
    LET p == PurePath(out)
        first == is_dir(onDisk, p) \/ out[Len(out)] \in Separators
    IN  IF ~first /\ PathSuffix(p) = <<>> THEN TRUE ELSE first

(***************************************************************************)
(* Python dicts and json                                                   *)
(***************************************************************************)
\* d[k] = v on a dict kept as its <<key, value>> pairs in insertion order
RECURSIVE DictSet(_, _, _)
DictSet(d, k, v) ==
    IF d = <<>> THEN <<<<k, v>>>>
    ELSE IF Head(d)[1] = k THEN <<<<k, v>>>> \o Tail(d)
    ELSE <<Head(d)>> \o DictSet(Tail(d), k, v)

DictKeys(d) == {d[n][1] : n \in 1..Len(d)}
DictGet(d, k) == d[CHOOSE n \in 1..Len(d) : d[n][1] = k][2]

\* json.dumps of a ResultRecord: True/False become the literals true/false,
\* strings are quoted, integers are written in digits
DumpRecord(r) ==
    [f \in DOMAIN r |->
        IF f = "ok" THEN [lit |-> IF r[f] THEN "true" ELSE "false"]
        ELSE IF f = "status_code" THEN [num |-> r[f]]
        ELSE [str |-> r[f]]]

\* json.dumps(results, indent=2): the members in dict order
json_dumps(d) ==
    [indent |-> 2,
     members |-> [n \in 1..Len(d) |-> <<[str |-> d[n][1]], DumpRecord(d[n][2])>>]]

LoadValue(j) ==
    IF "lit" \in DOMAIN j THEN j.lit = "true"
    ELSE IF "num" \in DOMAIN j THEN j.num
    ELSE j.str

\* json.loads of such a text, as the set of <<key, record>> it denotes
json_loads(text) ==
    {<<text.members[n][1].str,
       [f \in DOMAIN text.members[n][2] |-> LoadValue(text.members[n][2][f])]>> :
        n \in 1..Len(text.members)}

\* a dict as the mapping it denotes (dict equality ignores order)
AsMapping(d) == {<<d[n][1], d[n][2]>> : n \in 1..Len(d)}

(***************************************************************************)
(* The outside world: HTTP responses and MongoDB                           *)
(***************************************************************************)
\* HTTP statuses of the response requests.get returns: success; 300, which
\* requests does not follow (it follows 301, 302, 303, 307 and 308 when they
\* name a Location, and then returns the response it is led to); 304; a
\* client error and a server error
StatusCodes == {200, 300, 304, 404, 500}

\* response bodies: three JSON documents, the third with the integer 2^63,
\* one body that is not JSON, and none
Bodies ==
    {"{\"id\": 1}", "{\"id\": 2}", "{\"id\": 9223372036854775808}", "<html>", ""}

\* the bodies a response of a status can carry: a 304 has none
BodiesOf(status) ==
    CASE status = 200 -> Bodies \ {""}
      [] status = 304 -> {""}
      [] OTHER -> {"{\"id\": 1}", "<html>"}

\* what requests.get does: it raises a transport error or returns a response
FetchOutcomes ==
    {[kind |-> "transport"]}
        \cup UNION {{[kind |-> "response", status |-> st, body |-> b] :
                        b \in BodiesOf(st)} : st \in StatusCodes}

\* Response.raise_for_status(): HTTPError for 4xx and 5xx, nothing otherwise
RaisesForStatus(s) == 400 <= s /\ s < 600

\* Response.json(): the parsed document; when the body is not JSON requests
\* raises its JSONDecodeError, a RequestException (requests 2.27 and later)
IsJson(b) == b \in Bodies \ {"<html>", ""}

\* 2^63, the least integer above those a BSON document can hold; it is
\* beyond the integers of TLC, whose largest integer stands for it
TwoPow63 == 2147483647

ParseJson(b) ==
    CASE b = "{\"id\": 1}" -> [id |-> 1]
      [] b = "{\"id\": 2}" -> [id |-> 2]
      [] OTHER -> [id |-> TwoPow63]

\* lines 72-77: what get_token_details returns or raises for an outcome of
\* requests.get
get_token_details(o) ==
    IF o.kind = "transport"
    THEN [raised |-> "RequestException", msg |-> "ConnectionError"]
    ELSE IF RaisesForStatus(o.status)
    THEN [raised |-> "HTTPError", msg |-> "HTTPError", status_code |-> o.status]
    ELSE IF ~IsJson(o.body)
    THEN [raised |-> "RequestException", msg |-> "JSONDecodeError"]
    ELSE [raised |-> "no", value |-> ParseJson(o.body)]

\* store_to_mongo stamping each document with the time of its insert
store_to_mongo_stamped_now(address, payload, fetched_at) ==
    [address |-> address, fetched_at |-> now, data |-> payload]

\* lines 84-88: the document store_to_mongo inserts
store_to_mongo(address, payload, fetched_at) ==
    [address |-> address, fetched_at |-> fetched_at, data |-> payload]

\* line 89, coll.insert_one(doc): the BSON encoder of the driver takes
\* integers up to 2^63 - 1
bson_encodable(doc) == doc.data.id < TwoPow63

\* line 89, coll.insert_one(doc): the document is inserted; or the driver
\* raises a PyMongoError (no server, a refused write); or, the server found
\* and the document being one BSON cannot hold, its encoder raises
\* OverflowError
InsertOutcomes(doc) ==
    IF bson_encodable(doc) THEN {"ok", "PyMongoError"}
    ELSE {"PyMongoError", "OverflowError"}

\* line 133
on_fetch_ok(res, addr) == DictSet(res, addr, [ok |-> TRUE])

\* lines 137-139 without line 139: the failure is printed and not recorded
on_mongo_error_unrecorded(res, addr, msg) == res

\* lines 137-139
on_mongo_error(res, addr, msg) ==
    DictSet(res, addr, [ok |-> FALSE, mongo_error |-> msg])

\* lines 145-147
on_http_error(res, addr, r) ==
    DictSet(res, addr, [error |-> r.msg, status_code |-> r.status_code])

\* lines 148-150 without line 150: the failure is printed and not recorded
on_request_exception_unrecorded(res, addr, r) == res

\* lines 148-150
on_request_exception(res, addr, r) == DictSet(res, addr, [error |-> r.msg])

\* the loop with the handler of line 148 left out
handled_http_only(r) == r.raised = "HTTPError"

\* lines 145 and 148: the exceptions of the request the loop handles
handled(r) == r.raised \in {"HTTPError", "RequestException"}

\* line 144 without the floor
sleep_seconds_unfloored(delay) == delay

\* float("inf"), which --delay inf gives: above every other delay
Infinity == 1000

\* line 144: max(0.0, args.delay)
sleep_seconds(delay) == IF delay > 0 THEN delay ELSE 0

\* line 144: time.sleep(secs) raises OverflowError when secs does not fit its
\* C time type, which is so above about 9.2e9 seconds; of the delays of
\* this module that is float("inf")
sleep_overflows(secs) == secs >= Infinity

\* line 141: whether the per-address file is written
writes_per_address(out, isDir) == Truthy(out) /\ isDir

\* line 156-157, 160: whether the combined file is written
writes_combined(out, isDir) == Truthy(out) /\ ~isDir

\* json.dumps(data, indent=2) of a fetched payload
dump_payload(payload) == [indent |-> 2, object |-> payload]

\* text of a regular file that is on disk before the run
OldText == [indent |-> 0, object |-> [id |-> 0]]

\* the error of the system call mkdir(p), "no" when it makes the directory:
\* every directory on the way has to exist (ENOENT when the first that does
\* not is missing, ENOTDIR when it is a regular file), and the place itself
\* must not (EEXIST)
os_mkdir(ds, fs, p) ==
    Only({Only({
        IF bad # {}
        THEN IF OnDisk(Prefix(t, Only({k \in bad : \A m \in bad : k <= m})))
                    \in DOMAIN fs
             THEN "ENOTDIR" ELSE "ENOENT"
        ELSE IF Standing(place) \/ place \in ds \/ place \in DOMAIN fs
        THEN "EEXIST" ELSE "no" :
            bad \in {{k \in 1..(Len(PathParts(t)) - 1) : ~is_dir(ds, Prefix(t, k))}},
            place \in {OnDisk(t)}}) :
            t \in {p}})

\* the Python exception of an error of a system call
ErrorName(e) ==
    CASE e = "EEXIST" -> "FileExistsError"
      [] e = "ENOTDIR" -> "NotADirectoryError"
      [] e = "ENOENT" -> "FileNotFoundError"
      [] OTHER -> "no"

\* Path.mkdir(exist_ok=True) of pathlib without its parents branch: os.mkdir,
\* and an error other than ENOENT is passed over when the path is a directory
mkdir_exist_ok(ds, fs, p) ==
    Only({IF e = "no" THEN [raised |-> "no", dirs |-> ds \cup {OnDisk(p)}]
          ELSE IF e # "ENOENT" /\ is_dir(ds, p) THEN [raised |-> "no", dirs |-> ds]
          ELSE [raised |-> ErrorName(e), dirs |-> ds] :
            e \in {os_mkdir(ds, fs, p)}})

\* line 80, Path.mkdir(parents=True, exist_ok=True) of pathlib: on ENOENT the
\* parent is made in the same way first and os.mkdir is tried once more; the
\* exception raised, if any, and the directories on disk afterwards, those
\* made before the exception included
RECURSIVE mkdir(_, _, _)
mkdir(ds, fs, p) ==
    Only({IF e # "ENOENT" THEN mkdir_exist_ok(ds, fs, t)
          ELSE Only({IF up.raised # "no" THEN up
                     ELSE mkdir_exist_ok(up.dirs, fs, t) :
                        up \in {mkdir(ds, fs, PathParent(t))}}) :
            t \in {p}, e \in {os_mkdir(ds, fs, p)}})

\* save_result, lines 79-81: the exception it raises, if any, whether
\* write_text was called, and the directories and files on disk afterwards.
\* write_text raises when the path is a directory, and creates or overwrites
\* the file otherwise
save_result(ds, fs, path, text) ==
    Only({IF made.raised # "no"
          THEN [raised |-> made.raised, called |-> FALSE,
                dirs |-> made.dirs, files |-> fs]
          ELSE IF Standing(place) \/ place \in made.dirs
          THEN [raised |-> "IsADirectoryError", called |-> TRUE,
                dirs |-> made.dirs, files |-> fs]
          ELSE [raised |-> "no", called |-> TRUE, dirs |-> made.dirs,
                files |-> [q \in DOMAIN fs \cup {place} |->
                              IF q = place THEN text ELSE fs[q]]] :
            made \in {mkdir(ds, fs, PathParent(path))},
            place \in {OnDisk(path)}})

(***************************************************************************)
(* The settings file at import: load_dotenv(dotenv_path=ROOT/".env") of    *)
(* line 18.  python-dotenv reads the file binding by binding, with the     *)
(* regular expressions of its parser, and puts every NAME=value whose name *)
(* is not yet in os.environ into os.environ.  Names are compared as they   *)
(* are written (POSIX).  A value holding "${" is expanded by dotenv from   *)
(* the whole of os.environ; the texts of this module hold no "$".          *)
(***************************************************************************)
\* the characters of [^\S\r\n], and the two characters that end a line
Blanks == Whitespace \ {"\n", "\r"}
LineEnds == {"\n", "\r"}

\* first index >= p of text whose character is not in chars
RECURSIVE SkipChars(_, _, _)
SkipChars(text, p, chars) ==
    IF p <= Len(text) /\ text[p] \in chars
    THEN SkipChars(text, p + 1, chars) ELSE p

\* first index >= p of text whose character is in chars
RECURSIVE FindChar(_, _, _)
FindChar(text, p, chars) ==
    IF p <= Len(text) /\ text[p] \notin chars
    THEN FindChar(text, p + 1, chars) ELSE p

\* (?:export[^\S\r\n]+)? : where the reader stands after it
read_export(text, p) ==
    IF /\ p + 6 <= Len(text)
       /\ SubSeq(text, p, p + 5) = <<"e", "x", "p", "o", "r", "t">>
       /\ text[p + 6] \in Blanks
    THEN SkipChars(text, p + 6, Blanks) ELSE p

\* parse_key: no name for a comment, else '([^']+)' or ([^=\#\s]+)
parse_key(text, p) ==
    IF p > Len(text)
    THEN [ok |-> FALSE, named |-> FALSE, key |-> <<>>, next |-> p]
    ELSE IF text[p] = "#"
    THEN [ok |-> TRUE, named |-> FALSE, key |-> <<>>, next |-> p]
    ELSE IF text[p] = "'"
    THEN Only({IF q > Len(text) \/ q = p + 1
               THEN [ok |-> FALSE, named |-> FALSE, key |-> <<>>, next |-> p]
               ELSE [ok |-> TRUE, named |-> TRUE,
                     key |-> SubSeq(text, p + 1, q - 1), next |-> q + 1] :
                   q \in {FindChar(text, p + 1, {"'"})}})
    ELSE Only({IF e = p
               THEN [ok |-> FALSE, named |-> FALSE, key |-> <<>>, next |-> p]
               ELSE [ok |-> TRUE, named |-> TRUE,
                     key |-> SubSeq(text, p, e - 1), next |-> e] :
                   e \in {FindChar(text, p, {"=", "#"} \cup Whitespace)}})

\* '((?:\\'|[^'])*)' and "((?:\\"|[^"])*)" for the quote at p: the index of
\* the quote that closes it, 0 when the expression does not match.  A quote
\* after a backslash is taken as part of the value, unless no other quote is
\* left to close it.
closing_quote(text, p) ==
    Only({Only({IF plain # {} THEN CHOOSE q \in plain : \A r \in plain : q <= r
                ELSE IF quotes # {}
                THEN CHOOSE q \in quotes : \A r \in quotes : r <= q
                ELSE 0 :
                    plain \in {{q \in quotes : q = p + 1 \/ text[q - 1] # "\\"}}}) :
            quotes \in {{q \in (p + 1)..Len(text) : text[q] = text[p]}}})

\* the escapes decoded in a value in single and in double quotes
SingleQuoteEscapes == [c \in {"\\", "'"} |-> c]
DoubleQuoteEscapes ==
    [c \in {"\\", "'", "\"", "a", "b", "f", "n", "r", "t", "v"} |->
        CASE c = "a" -> "" [] c = "b" -> "" [] c = "f" -> "\f"
          [] c = "n" -> "\n" [] c = "r" -> "\r" [] c = "t" -> "\t"
          [] c = "v" -> "" [] OTHER -> c]

\* decode_escapes: each backslash pair of codes, from the left, replaced
RECURSIVE decode_escapes(_, _, _)
decode_escapes(s, p, codes) ==
    IF p > Len(s) THEN <<>>
    ELSE IF s[p] = "\\" /\ p < Len(s) /\ s[p + 1] \in DOMAIN codes
    THEN <<codes[s[p + 1]]>> \o decode_escapes(s, p + 2, codes)
    ELSE <<s[p]>> \o decode_escapes(s, p + 1, codes)

\* parse_unquoted_value: re.sub(r"\s+#.*", "", part).rstrip()
parse_unquoted_value(part) ==
    Only({rstrip(IF cuts = {} THEN part
                 ELSE SubSeq(part, 1,
                        (CHOOSE j \in cuts : \A m \in cuts : j <= m) - 1),
                 Whitespace) :
            cuts \in {{j \in 1..Len(part) :
                        /\ part[j] \in Whitespace
                        /\ SkipChars(part, j, Whitespace) <= Len(part)
                        /\ part[SkipChars(part, j, Whitespace)] = "#"}}})

\* parse_value, for the reader standing after "=" and the blanks behind it
parse_value(text, p) ==
    IF p > Len(text) \/ text[p] \in LineEnds
    THEN [ok |-> TRUE, value |-> <<>>, next |-> p]
    ELSE IF text[p] \in {"'", "\""}
    THEN Only({IF q = 0 THEN [ok |-> FALSE, value |-> <<>>, next |-> p]
               ELSE [ok |-> TRUE,
                     value |-> Only({decode_escapes(raw, 1,
                                        IF text[p] = "'" THEN SingleQuoteEscapes
                                        ELSE DoubleQuoteEscapes) :
                                    raw \in {SubSeq(text, p + 1, q - 1)}}),
                     next |-> q + 1] :
                   q \in {closing_quote(text, p)}})
    ELSE Only({[ok |-> TRUE,
                value |-> Only({parse_unquoted_value(part) :
                                    part \in {SubSeq(text, p, e - 1)}}),
                next |-> e] :
                   e \in {FindChar(text, p, LineEnds)}})

\* the binding of a line that does not parse: none, and the reader moves
\* behind [^\r\n]*(?:\r|\n|\r\n)? from where it stood
rest_of_line(text, p) ==
    Only({[named |-> FALSE, key |-> <<>>, set |-> FALSE, value |-> <<>>,
           next |-> IF e > Len(text) THEN e ELSE e + 1] :
            e \in {FindChar(text, p, LineEnds)}})

\* the end of parse_binding, for the reader at p behind the key or the value:
\* (?:[^\S\r\n]*#[^\r\n]*)? and then [^\S\r\n]*(?:\r\n|\n|\r|$)
end_of_binding(text, p, key, given, value) ==
    Only({Only({IF end <= Len(text) /\ text[end] \notin LineEnds
                THEN rest_of_line(text, comment)
                ELSE [named |-> key.named, key |-> key.key, set |-> given,
                      value |-> value,
                      next |-> IF end > Len(text) THEN end
                               ELSE IF /\ text[end] = "\r" /\ end < Len(text)
                                       /\ text[end + 1] = "\n"
                               THEN end + 2 ELSE end + 1] :
                    end \in {SkipChars(text, comment, Blanks)}}) :
            comment \in {Only({IF hash <= Len(text) /\ text[hash] = "#"
                               THEN FindChar(text, hash, LineEnds) ELSE p :
                                   hash \in {SkipChars(text, p, Blanks)}})}})

\* parse_binding, for the reader standing on the first character after
\* whitespace: the name, whether a value was given and the value, and where
\* the reader stands afterwards
parse_binding(text, p) ==
    Only({Only({
        IF ~key.ok THEN rest_of_line(text, start)
        ELSE Only({
            IF eq > Len(text) \/ text[eq] # "="
            THEN end_of_binding(text, eq, key, FALSE, <<>>)
            ELSE Only({Only({
                    IF ~val.ok THEN rest_of_line(text, at)
                    ELSE end_of_binding(text, val.next, key, TRUE, val.value) :
                        val \in {parse_value(text, at)}}) :
                        at \in {SkipChars(text, eq + 1, Blanks)}}) :
                eq \in {SkipChars(text, key.next, Blanks)}}) :
            key \in {parse_key(text, start)}}) :
            start \in {read_export(text, p)}})

\* parse_stream: the bindings of the text from index p on that have a name
RECURSIVE parse_stream(_, _)
parse_stream(text, p) ==
    Only({IF s > Len(text) THEN <<>>
          ELSE Only({(IF b.named THEN <<b>> ELSE <<>>)
                        \o parse_stream(text, b.next) :
                            b \in {parse_binding(text, s)}}) :
            s \in {SkipChars(text, p, Whitespace)}})

\* line 18: os.environ after load_dotenv, for os.environ before it and the
\* text of the file (None: no file).  The last binding of a name counts; a
\* name without "=" has no value and is not exported; a variable that is
\* already set, to the empty string too, is kept.
load_dotenv(env, text) ==
    IF text = None THEN env
    ELSE Only({
        [name \in DOMAIN env |->
            IF env[name] # None THEN env[name]
            ELSE Only({
                IF given = {} THEN None
                ELSE Only({IF last.set THEN last.value ELSE None :
                    last \in {bindings[CHOOSE k \in given :
                                            \A m \in given : m <= k]}}) :
                given \in {{k \in 1..Len(bindings) :
                                bindings[k].key = KeyChars(name)}}})] :
            bindings \in {parse_stream(text, 1)}})

(***************************************************************************)
(* Inputs of a run                                                         *)
(***************************************************************************)
\* the longest address list of the ADDRESSES variable in the runs of Spec
MaxAddrs == 2

AddrPool == {<<"a">>, <<"b">>}

\* the address lists of length 0..MaxAddrs, repeated addresses included
AddrLists == UNION {[1..n -> AddrPool] : n \in 0..MaxAddrs}

\* "a,b,a" for <<a, b, a>>
RECURSIVE JoinCsv(_)
JoinCsv(l) ==
    IF Len(l) = 0 THEN <<>>
    ELSE IF Len(l) = 1 THEN l[1]
    ELSE l[1] \o <<",">> \o JoinCsv(Tail(l))

\* values of a required setting: unset, empty, set
SecretValues == {None, <<>>, <<"k">>}

\* --address: absent, empty, plain, padded with whitespace, only whitespace
OverrideValues == {None, <<>>, <<"a">>, <<" ", "b", " ">>, <<" ", " ">>}

\* --delay, in units of the default delay: negative, zero, the default, inf
DelayValues == {-1, 0, 1, Infinity}

\* --out with the directories and the regular files present before the run
OutCases ==
    {\* no output path
     [out |-> None, dirs |-> {}, files |-> {}],
     \* no extension, nothing on disk
     [out |-> <<"r", "e", "s">>, dirs |-> {}, files |-> {}],
     \* an extension, nothing on disk
     [out |-> <<"r", "e", "s", ".", "j", "s">>, dirs |-> {}, files |-> {}],
     \* a trailing separator of either kind
     [out |-> <<"o", ".", "d", "/">>, dirs |-> {}, files |-> {}],
     [out |-> <<"o", ".", "d", "\\">>, dirs |-> {}, files |-> {}],
     \* an existing directory whose name has an extension
     [out |-> <<"v", ".", "1">>, dirs |-> {<<"v", ".", "1">>}, files |-> {}],
     \* a path pathlib normalises, two levels deep
     [out |-> <<".", "/", "r", "/", "/", "s">>, dirs |-> {}, files |-> {}],
     \* no extension, and a regular file of that name on disk
     [out |-> <<"r", "e", "s">>, dirs |-> {}, files |-> {<<"r", "e", "s">>}],
     \* an existing directory that holds a directory named a.json
     [out |-> <<"d">>,
      dirs |-> {<<"d">>, <<"d", "/", "a", ".", "j", "s", "o", "n">>},
      files |-> {}],
     \* an extension, and a regular file of that name on disk
     [out |-> <<"r", "e", "s", ".", "j", "s">>, dirs |-> {},
      files |-> {<<"r", "e", "s", ".", "j", "s">>}],
     \* an extension, inside what is a regular file on disk
     [out |-> <<"r", "/", "o", ".", "j", "s">>, dirs |-> {},
      files |-> {<<"r">>}],
     \* through a directory that is missing and back, into a regular file:
     \* mkdir makes the missing directory before it raises
     [out |-> <<"n", "/", ".", ".", "/", "f", "/", "o", ".", "j", "s">>,
      dirs |-> {}, files |-> {<<"f">>}],
     \* through a directory that is missing and back, no extension
     [out |-> <<"n", "/", ".", ".", "/", "r">>, dirs |-> {}, files |-> {}]}

Environ(key, uri, a, t, l) ==
    [HYPESCORE_API_KEY |-> key, MONGO_URI |-> uri,
     ADDRESSES |-> a, TOKENS |-> t, TOKENS_LIST |-> l]

\* the state the process starts in, line 18 done, for the environment the
\* process was given, the text of the .env file, the arguments and the disk
Start(env, file, a, ds, fs) ==
    /\ pc = "config"
    /\ environ = load_dotenv(env, file)
    /\ env_file = file
    /\ args = a
    /\ dirs = ds
    /\ files = [q \in fs |-> OldText]
    /\ addresses = <<>>
    /\ is_out_dir = FALSE
    /\ results = <<>>
    /\ run_ts = 0
    /\ i = 0
    /\ data = <<>>
    /\ now = 1
    /\ db = <<>>
    /\ stdout = <<>>
    /\ log = <<>>
    /\ exit_code = -1

Init ==
    \E key \in SecretValues, uri \in SecretValues, o \in OutCases,
       d \in DelayValues, ad \in OverrideValues,
       csv \in {None} \cup {JoinCsv(l) : l \in AddrLists} :
        \* a run that stops at the configuration check reads no other input
        /\ (~Truthy(key) \/ ~Truthy(uri)) =>
                ad = None /\ csv = None /\ d = 1 /\ o.out = None
        \* with an override the variable is unset or holds two addresses
        /\ Truthy(ad) => csv \in {None, <<"a", ",", "b">>}
        /\ Start(Environ(key, uri, csv, None, None), None,
                 [address |-> ad, out |-> o.out, delay |-> d], o.dirs, o.files)

(***************************************************************************)
(* The steps of the process                                                *)
(***************************************************************************)
Exit(code) == pc' = "exit" /\ exit_code' = code

\* the check of line 25 alone, the check of line 29 left out
config_missing_key_only(env) == ~Truthy(env.HYPESCORE_API_KEY)

\* lines 25 and 29: a required setting is unset or empty
config_missing(env) ==
    ~Truthy(env.HYPESCORE_API_KEY) \/ ~Truthy(env.MONGO_URI)

\* lines 20-31: the module-level configuration check
CheckConfig ==
    /\ pc = "config"
    /\ IF config_missing(environ)
       THEN Exit(2)
       ELSE pc' = "main" /\ UNCHANGED exit_code
    /\ UNCHANGED <<environ, env_file, args, dirs, files, addresses, is_out_dir,
                   results, run_ts, i, data, now, db, stdout, log>>

\* lines 98-106: resolve, strip and check the address list
ResolveAddresses ==
    /\ pc = "main"
    /\ LET resolved == strip_addresses(resolve(args, environ, env_file))
       IN  /\ addresses' = resolved
           /\ IF resolved = <<>> THEN Exit(2)
              ELSE pc' = "classify" /\ UNCHANGED exit_code
    /\ log' = log \o ResolveReads(args, environ, env_file)
    /\ UNCHANGED <<environ, env_file, args, dirs, files, is_out_dir, results,
                   run_ts, i, data, now, db, stdout>>

\* lines 108-114: decide once whether the output path is a directory
ClassifyOut ==
    /\ pc = "classify"
    /\ is_out_dir' = IF Truthy(args.out) THEN classify_out(args.out, dirs)
                     ELSE FALSE
    /\ pc' = "connect"
    /\ UNCHANGED <<environ, env_file, args, dirs, files, addresses, results,
                   run_ts, i, data, now, db, stdout, log, exit_code>>

\* lines 116-127: connect and ping; on success start the loop
Connect ==
    /\ pc = "connect"
    /\ \E ok \in BOOLEAN :
        /\ log' = Append(log, [op |-> "connect", ok |-> ok])
        /\ IF ok
           THEN /\ results' = <<>>
                /\ run_ts' = now
                /\ i' = 1
                /\ pc' = "fetch"
                /\ UNCHANGED exit_code
           ELSE Exit(3) /\ UNCHANGED <<results, run_ts, i>>
    /\ UNCHANGED <<environ, env_file, args, dirs, files, addresses, is_out_dir,
                   data, now, db, stdout>>

\* lines 129-133 and 145-150: the request for addresses[i] and what the
\* handlers of the try statement record for it
Fetch ==
    /\ pc = "fetch"
    /\ i <= Len(addresses)
    /\ \E o \in FetchOutcomes :
        LET addr == addresses[i]
            r == get_token_details(o)
        IN  /\ log' = Append(log, [op |-> "get", pos |-> i, addr |-> addr,
                                   outcome |-> o])
            /\ now' = now + 1
            /\ IF r.raised = "no"
               THEN /\ data' = <<r.value>>
                    /\ results' = on_fetch_ok(results, addr)
                    /\ pc' = "store"
                    /\ UNCHANGED <<i, exit_code>>
               ELSE IF handled(r)
               THEN /\ results' = IF r.raised = "HTTPError"
                                  THEN on_http_error(results, addr, r)
                                  ELSE on_request_exception(results, addr, r)
                    /\ i' = i + 1
                    /\ UNCHANGED <<pc, data, exit_code>>
               \* an exception no handler names ends the process with a traceback
               ELSE Exit(1) /\ UNCHANGED <<results, i, data>>
    /\ UNCHANGED <<environ, env_file, args, dirs, files, addresses, is_out_dir,
                   run_ts, db, stdout>>

\* lines 135-139: the insert and the handler of its failure; an exception
\* that is no PyMongoError is not handled: the traceback is printed and the
\* status is 1
Store ==
    /\ pc = "store"
    /\ \E doc \in {store_to_mongo(addresses[i], data[1], run_ts)} :
       \E raised \in InsertOutcomes(doc) :
        /\ log' = Append(log, [op |-> "insert_one", pos |-> i, doc |-> doc,
                               ok |-> raised = "ok", raised |-> raised])
        /\ db' = IF raised = "ok" THEN Append(db, doc) ELSE db
        /\ results' = IF raised = "PyMongoError"
                      THEN on_mongo_error(results, addresses[i], "PyMongoError")
                      ELSE results
        /\ IF raised \in {"ok", "PyMongoError"}
           THEN pc' = "save" /\ UNCHANGED exit_code
           ELSE Exit(1)
    /\ UNCHANGED <<environ, env_file, args, dirs, files, addresses, is_out_dir,
                   run_ts, i, data, now, stdout>>

\* what a call of save_result leaves: the disk, the write_text call in the
\* log when it was reached, and, when it raised, the end of the process: no
\* except clause names OSError, the traceback is printed and the status is 1
Saved(r, pos, path, text, after, code) ==
    /\ dirs' = r.dirs
    /\ files' = r.files
    /\ log' = IF r.called
              THEN Append(log, [op |-> "write_text", pos |-> pos, path |-> path,
                                text |-> text, ok |-> r.raised = "no"])
              ELSE log
    /\ IF r.raised = "no"
       THEN IF after = "exit" THEN Exit(code)
            ELSE pc' = after /\ UNCHANGED exit_code
       ELSE Exit(1)

\* lines 141-143: the per-address file
SaveFile ==
    /\ pc = "save"
    /\ IF writes_per_address(args.out, is_out_dir)
       THEN \E out \in {PurePath(args.out)} :
            \E path \in {PathJoin(out, addresses[i] \o
                                      <<".", "j", "s", "o", "n">>)} :
            \E text \in {dump_payload(data[1])} :
            \E r \in {save_result(dirs, files, path, text)} :
                Saved(r, i, path, text, "sleep", 0)
       ELSE pc' = "sleep" /\ UNCHANGED <<dirs, files, log, exit_code>>
    /\ UNCHANGED <<environ, env_file, args, addresses, is_out_dir, results,
                   run_ts, i, data, now, db, stdout>>

\* line 144, then the next iteration; no except clause names the
\* OverflowError of time.sleep: the traceback is printed and the status is 1
Sleep ==
    /\ pc = "sleep"
    /\ \E secs \in {sleep_seconds(args.delay)} :
        /\ log' = Append(log, [op |-> "sleep", pos |-> i, secs |-> secs,
                               ok |-> ~sleep_overflows(secs)])
        /\ IF sleep_overflows(secs)
           THEN Exit(1) /\ UNCHANGED <<now, i>>
           ELSE /\ now' = now + secs
                /\ i' = i + 1
                /\ pc' = "fetch"
                /\ UNCHANGED exit_code
    /\ UNCHANGED <<environ, env_file, args, dirs, files, addresses, is_out_dir,
                   results, run_ts, data, db, stdout>>

\* lines 153-154: the loop is over; print the mapping
Report ==
    /\ pc = "fetch"
    /\ i > Len(addresses)
    /\ stdout' = Append(stdout, json_dumps(results))
    /\ log' = Append(log, [op |-> "print", text |-> json_dumps(results)])
    /\ pc' = "final"
    /\ UNCHANGED <<environ, env_file, args, dirs, files, addresses, is_out_dir,
                   results, run_ts, i, data, now, db, exit_code>>

\* lines 156-161: the combined file, then the end of main
Finish ==
    /\ pc = "final"
    /\ IF writes_combined(args.out, is_out_dir)
       THEN \E path \in {PurePath(args.out)} :
            \E text \in {json_dumps(results)} :
            \E r \in {save_result(dirs, files, path, text)} :
                Saved(r, 0, path, text, "exit", 0)
       ELSE Exit(0) /\ UNCHANGED <<dirs, files, log>>
    /\ UNCHANGED <<environ, env_file, args, addresses, is_out_dir, results,
                   run_ts, i, data, now, db, stdout>>

Next ==
    \/ CheckConfig
    \/ ResolveAddresses
    \/ ClassifyOut
    \/ Connect
    \/ Fetch
    \/ Store
    \/ SaveFile
    \/ Sleep
    \/ Report
    \/ Finish

Spec == Init /\ [][Next]_vars

\* the steps from the first request to the end of main
LoopStep == Fetch \/ Store \/ SaveFile \/ Sleep \/ Report \/ Finish

\* the process is sequential and every call of the loop returns or raises (the
\* request has a timeout, the driver a server-selection timeout): once in the
\* loop it keeps taking steps until it exits
FairSpec == Spec /\ WF_vars(LoopStep)

(***************************************************************************)
(* Address resolution on its own: every short value of ADDRESSES and of    *)
(* --address, with sample values of the other sources                      *)
(***************************************************************************)
\* the longest ADDRESSES value and the longest --address value of SpecResolve
MaxEnvLen == 3

\* letters, the two delimiters, the two quotes, a blank and "\r", a whitespace
\* character that is no delimiter
EnvAlphabet == {"a", "b", ",", " ", "\n", "\r", "\"", "'"}

EnvStrings == UNION {[1..n -> EnvAlphabet] : n \in 0..MaxEnvLen}

TokensValues == {None, <<",">>, <<"b">>}
TokensListValues == {None, <<" ", "a", " ", ",", "b", " ">>}

Repeat(c, n) == [k \in 1..n |-> c]

\* texts of the .env file
EnvFileTexts ==
    {None,
     \* the documented form of the key line
     <<"A", "D", "D", "R", "E", "S", "S", "E", "S", " ", "=", " ", "\"", "a", ",", " ", "b", ",", " ", "c", "\"">>,
     \* a key in lower case
     <<"t", "o", "k", "e", "n", "s", "=", "b">>,
     \* a key that is not on the first line
     <<"X", "=", "1", "\n", "T", "O", "K", "E", "N", "S", "_", "L", "I", "S", "T", "=", "b", ",", "a">>,
     \* a key with nothing after "=" on its line: \s* runs into the next line
     <<"A", "D", "D", "R", "E", "S", "S", "E", "S", "=", "\n", "T", "O", "K", "E", "N", "S", "=", "b">>,
     \* a key followed by blanks only
     <<"A", "D", "D", "R", "E", "S", "S", "E", "S", "=", " ">>,
     \* no key, a quoted string of MinQuotedLen characters
     <<"X", "=", "\"">> \o <<"a", ",", "b", ",">>
         \o Repeat("a", MinQuotedLen - 4) \o <<"\"">>,
     \* no key, a quoted string one character short
     <<"X", "=", "\"">> \o <<"a", ",", "b", ",">>
         \o Repeat("a", MinQuotedLen - 5) \o <<"\"">>,
     \* a key with a blank value before a long quoted string
     <<"A", "D", "D", "R", "E", "S", "S", "E", "S", "=", " ">> \o <<"\n", "\"">> \o Repeat("b", MinQuotedLen) \o <<"\"">>}

InitResolve ==
    \/ \E v \in {None} \cup EnvStrings, tk \in TokensValues,
          tl \in TokensListValues, f \in EnvFileTexts :
            Start(Environ(<<"k">>, <<"m">>, v, tk, tl), f,
                  [address |-> None, out |-> None, delay |-> 1], {}, {})
    \/ \E ad \in EnvStrings, v \in {None, <<"a", ",", "b">>},
          f \in {None, <<"t", "o", "k", "e", "n", "s", "=", "b">>} :
            Start(Environ(<<"k">>, <<"m">>, v, None, None), f,
                  [address |-> ad, out |-> None, delay |-> 1], {}, {})

NextResolve ==
    \/ CheckConfig
    \/ ResolveAddresses

SpecResolve == InitResolve /\ [][NextResolve]_vars

(***************************************************************************)
(* Properties                                                              *)
(***************************************************************************)
\* the address list has been resolved (lines 98-106 have run)
Resolved ==
    /\ pc \notin {"config", "main"}
    /\ ~(pc = "exit" /\ config_missing(environ))

\* no address source has been read
NoSourceRead ==
    \A k \in 1..Len(log) :
        log[k].op \notin {"getenv", "env_path.exists", "read_text"}

AllBlank(s) == \A k \in 1..Len(s) : s[k] \in Whitespace

\* s is t with whitespace put before and after it, and t has none at its ends
IsTrimOf(t, s) ==
    /\ t = <<>> \/ (t[1] \notin Whitespace /\ t[Len(t)] \notin Whitespace)
    /\ \E p \in 0..Len(s) :
        /\ p + Len(t) <= Len(s)
        /\ AllBlank(SubSeq(s, 1, p))
        /\ SubSeq(s, p + 1, p + Len(t)) = t
        /\ AllBlank(SubSeq(s, p + Len(t) + 1, Len(s)))

Substrings(s) == {SubSeq(s, p, q) : p \in 1..(Len(s) + 1), q \in 0..Len(s)}

\* C5 as stated: for every non-empty --address, padded or blank ones included,
\* the resolved list is exactly <<override>> and no other source is read.
C5_AsStated ==
    (Resolved /\ Truthy(args.address)) =>
        addresses = <<args.address>> /\ NoSourceRead

\* C5, amended: for every non-empty --address no other source is read, and the
\* resolved list holds the override with its surrounding whitespace removed as
\* its only entry; an override of whitespace alone resolves to the empty list
\* and the process exits with code 2.
C5_OverrideTrimmed ==
    (Resolved /\ Truthy(args.address)) =>
        /\ NoSourceRead
        /\ \E t \in Substrings(args.address) :
            /\ IsTrimOf(t, args.address)
            /\ IF t = <<>>
               THEN addresses = <<>> /\ pc = "exit" /\ exit_code = 2
               ELSE addresses = <<t>> /\ pc # "exit"

\* a padded override has been resolved while ADDRESSES held two addresses
C5_Witness ==
    /\ pc = "classify"
    /\ args.address = <<" ", "b", " ">>
    /\ environ.ADDRESSES = <<"a", ",", "b">>
    /\ addresses = <<<<"b">>>>

\* what each source yields, in priority order: the three variables, the scan
\* of the .env file, the built-in address
SourceYields ==
    [k \in 1..Len(AddressKeys) |->
        IF Truthy(environ[AddressKeys[k]])
        THEN EnvParts(environ[AddressKeys[k]]) ELSE <<>>]
    \o <<IF env_file = None THEN <<>>
         ELSE extract_addresses_from_env_file(env_file)>>
    \o << <<DEFAULT_ADDRESS>> >>

\* the first source of ys that yields an entry
FirstYielding(ys) ==
    CHOOSE k \in 1..Len(ys) :
        /\ ys[k] # <<>>
        /\ \A j \in 1..(k - 1) : ys[j] = <<>>

\* s without whitespace, commas and quotes
RECURSIVE Squeeze(_)
Squeeze(s) ==
    IF s = <<>> THEN <<>>
    ELSE IF Head(s) \in Whitespace \cup {",", "\"", "'"} THEN Squeeze(Tail(s))
    ELSE <<Head(s)>> \o Squeeze(Tail(s))

RECURSIVE Flatten(_)
Flatten(l) == IF l = <<>> THEN <<>> ELSE Head(l) \o Flatten(Tail(l))

\* C6: without an override the resolved list is what the first source that
\* yields an entry yields, in the order ADDRESSES, TOKENS, TOKENS_LIST, the
\* .env scan, the built-in address (alone, and only when nothing else
\* yields); the list is never empty, holds no empty or untrimmed entry, and
\* keeps the order of the source.
C6_FirstSourceWins ==
    (Resolved /\ ~Truthy(args.address)) =>
        LET ys == SourceYields
            first == FirstYielding(ys)
        IN  /\ addresses = ys[first]
            /\ addresses # <<>>
            /\ pc # "exit"
            /\ \A k \in 1..Len(addresses) :
                /\ addresses[k] # <<>>
                /\ addresses[k][1] \notin Whitespace
                /\ addresses[k][Len(addresses[k])] \notin Whitespace
            /\ first <= Len(AddressKeys) =>
                Squeeze(Flatten(addresses))
                    = Squeeze(environ[AddressKeys[first]])

\* no variable is set before or after load_dotenv, the .env file names its
\* key in lower case, which load_dotenv exports under that name and the scan
\* of line 39 finds, and the list comes from the file
C6_Witness ==
    /\ pc = "classify"
    /\ args.address = None
    /\ \A k \in 1..Len(AddressKeys) : environ[AddressKeys[k]] = None
    /\ env_file = <<"t", "o", "k", "e", "n", "s", "=", "b">>
    /\ addresses = <<<<"b">>>>

\* positions in the log of the calls with a given name
Calls(op) == {k \in 1..Len(log) : log[k].op = op}

AddressSet == {addresses[k] : k \in 1..Len(addresses)}

\* the run has printed its report
Reported == pc = "final" \/ (pc = "exit" /\ Len(stdout) > 0)

ConnectedOk == \E k \in Calls("connect") : log[k].ok
ConnectFailed == \E k \in Calls("connect") : ~log[k].ok

\* the request at log position k returned a payload
Fetched(k) == get_token_details(log[k].outcome).raised = "no"

\* the path of the per-address file of address a
PerAddressPath(a) ==
    PathJoin(PurePath(args.out), a \o <<".", "j", "s", "o", "n">>)

DirectoryMode == Truthy(args.out) /\ is_out_dir

\* the places of the files the run has written
Written == {q \in DOMAIN files : files[q] # OldText}

\* the run went through the report and ended with exit code 0
Finished == pc = "exit" /\ exit_code = 0

\* the run was ended, with exit status 1, by a save_result that raised: in
\* directory mode the one for the address at position i, right after its
\* insert and before any report; in file mode the one for the combined file,
\* right after the report
EndedByWrite ==
    /\ pc = "exit" /\ exit_code = 1
    /\ Truthy(args.out)
    /\ IF is_out_dir
       THEN /\ i \in 1..Len(addresses)
            /\ stdout = <<>>
            /\ save_result(dirs, files, PerAddressPath(addresses[i]),
                           OldText).raised # "no"
            /\ \E k \in Calls("insert_one") :
                /\ log[k].pos = i
                /\ log[k].raised \in {"ok", "PyMongoError"}
                /\ \/ k = Len(log)
                   \/ /\ k + 1 = Len(log)
                      /\ log[k + 1].op = "write_text"
                      /\ log[k + 1].pos = i
                      /\ ~log[k + 1].ok
       ELSE /\ Len(stdout) = 1
            /\ save_result(dirs, files, PurePath(args.out), OldText).raised # "no"
            /\ \E k \in Calls("print") :
                \/ k = Len(log)
                \/ /\ k + 1 = Len(log)
                   /\ log[k + 1].op = "write_text"
                   /\ log[k + 1].pos = 0
                   /\ ~log[k + 1].ok

\* the run was ended, with exit status 1, by the insert of position i, which
\* raised an exception that is no PyMongoError: the insert is the last call,
\* no report was printed, and the record of the address is still {ok: true}
EndedByInsert ==
    /\ pc = "exit" /\ exit_code = 1
    /\ stdout = <<>>
    /\ i \in 1..Len(addresses)
    /\ Len(log) > 0
    /\ log[Len(log)].op = "insert_one"
    /\ log[Len(log)].pos = i
    /\ log[Len(log)].raised = "OverflowError"
    /\ ~bson_encodable(log[Len(log)].doc)
    /\ DictGet(results, addresses[i]) = [ok |-> TRUE]

\* the run was ended, with exit status 1, by the time.sleep of position i that
\* raised: the sleep is the last call, no report was printed, and position i
\* is the first whose request returned a payload
EndedBySleep ==
    /\ pc = "exit" /\ exit_code = 1
    /\ stdout = <<>>
    /\ i \in 1..Len(addresses)
    /\ sleep_overflows(sleep_seconds(args.delay))
    /\ Len(log) > 0
    /\ log[Len(log)].op = "sleep"
    /\ log[Len(log)].pos = i
    /\ ~log[Len(log)].ok
    /\ \A k \in Calls("get") : Fetched(k) <=> log[k].pos = i

\* C1: when the run reaches the final report, results holds exactly one entry
\* per address of the resolved list, repeated addresses included: its keys
\* are the addresses of the list, none missing, none added, none twice; the
\* printed mapping has the same keys.
C1_OneEntryPerAddress ==
    Reported =>
        /\ DictKeys(results) = AddressSet
        /\ \A m, n \in 1..Len(results) :
            results[m][1] = results[n][1] => m = n
        /\ \A k \in 1..Len(stdout) :
            /\ {e[1] : e \in json_loads(stdout[k])} = AddressSet
            /\ Len(stdout[k].members) = Cardinality(AddressSet)

\* a finished run over a list that names one address twice, whose first
\* request failed
C1_Witness ==
    /\ pc = "exit"
    /\ exit_code = 0
    /\ addresses = << <<"a">>, <<"a">> >>
    /\ Len(results) = 1
    /\ \E k \in Calls("get") : log[k].pos = 1 /\ log[k].outcome.kind = "transport"

\* the record a run over this address alone gives for an outcome of its
\* request and of its insert
OwnRecord(a, o, inserted) ==
    LET r == get_token_details(o)
    IN  IF r.raised = "HTTPError"
        THEN DictGet(on_http_error(<<>>, a, r), a)
        ELSE IF r.raised = "RequestException"
        THEN DictGet(on_request_exception(<<>>, a, r), a)
        ELSE IF inserted THEN DictGet(on_fetch_ok(<<>>, a), a)
        ELSE DictGet(on_mongo_error(on_fetch_ok(<<>>, a), a, "PyMongoError"), a)

\* the last request for address a
LastGet(a) ==
    CHOOSE k \in Calls("get") :
        /\ log[k].addr = a
        /\ \A m \in Calls("get") : log[m].addr = a => m <= k

\* the insert of position p succeeded
InsertedAt(p) == \E k \in Calls("insert_one") : log[k].pos = p /\ log[k].ok

\* what C2 says of a run that has ended through the report: every position
\* of the list has had its request, the printed mapping is the whole of
\* results, and each address's record is the one its own (last) outcome
\* gives, whatever happened to the others
C2_Reported ==
    /\ \A p \in 1..Len(addresses) :
        Cardinality({k \in Calls("get") : log[k].pos = p}) = 1
    /\ Len(stdout) = 1
    /\ json_loads(stdout[1]) = AsMapping(results)
    /\ \A a \in AddressSet :
        /\ a \in DictKeys(results)
        /\ DictGet(results, a)
            = OwnRecord(a, log[LastGet(a)].outcome,
                        InsertedAt(log[LastGet(a)].pos))

\* C2 as stated: once the loop has started, whatever requests and inserts
\* fail, the run goes on to the report: it ends only with exit code 0,
\* having requested every position of the list, printed the whole mapping,
\* and recorded for each address its own outcome.
C2_AsStated ==
    (pc = "exit" /\ ConnectedOk) => exit_code = 0 /\ C2_Reported

\* the run was ended inside the loop, at position i, by an exception that
\* nothing catches
EndedInLoop == (EndedByWrite /\ is_out_dir) \/ EndedBySleep \/ EndedByInsert

\* the positions before p are done: each was requested once, and one whose
\* request returned a payload had its insert and its sleep
DoneBefore(p) ==
    \A q \in 1..(p - 1) :
        /\ Cardinality({k \in Calls("get") : log[k].pos = q}) = 1
        /\ addresses[q] \in DictKeys(results)
        /\ \A k \in Calls("get") :
            (log[k].pos = q /\ Fetched(k)) =>
                /\ \E m \in Calls("insert_one") : log[m].pos = q
                /\ \E m \in Calls("sleep") : log[m].pos = q /\ log[m].ok

\* what the amended C2 says of every state: a run that has printed its report
\* is as C2 says, and ends with 0 or, when the write of the combined file
\* raised, with 1; a run that ended without a report was ended at position i
\* by the insert, the per-address file write or the sleep of that position
C2_Safety ==
    (pc = "exit" /\ ConnectedOk) =>
        /\ exit_code \in {0, 1}
        /\ Reported => C2_Reported
        /\ (Reported /\ exit_code = 1) => (EndedByWrite /\ ~is_out_dir)
        /\ ~Reported =>
            /\ exit_code = 1
            /\ EndedInLoop
            /\ DoneBefore(i)
            /\ \A q \in i..Len(addresses) :
                    Cardinality({k \in Calls("get") : log[k].pos = q})
                        = IF q = i THEN 1 ELSE 0

\* what the amended C2 says of every step: the request with its handlers
\* never ends the process, and the insert with its handler ends it only by
\* raising an exception that is no PyMongoError
C2_Step ==
    /\ pc = "fetch" => pc' # "exit"
    /\ (pc = "store" /\ pc' = "exit") =>
        log'[Len(log')].raised \notin {"ok", "PyMongoError"}

\* C2, amended: no non-2xx response, no transport error and no insert that
\* fails with a PyMongoError ends the run: the steps of the request and of
\* such an insert never end the process, and a run that reaches the report
\* has requested every position once, prints the whole mapping and holds for
\* each address the record of its own outcome.  A started run does end, but
\* not always through the report: an exception nothing catches ends it with
\* status 1 and no report at the position where it is raised, which is so
\* of an insert that raises something else than a PyMongoError, of a
\* per-address file write that raises, and of time.sleep for an over-large
\* delay (which raises at the first position that was fetched); the earlier
\* positions are done, the later ones are never requested.
C2_FailuresDoNotAbort ==
    /\ []C2_Safety
    /\ [][C2_Step]_vars
    /\ ConnectedOk ~> (pc = "exit")

\* a finished run of two addresses: the first request met a transport error,
\* the second succeeded and its insert failed
C2_Witness ==
    /\ pc = "exit"
    /\ exit_code = 0
    /\ Len(addresses) = 2
    /\ \E k \in Calls("get") : log[k].pos = 1 /\ log[k].outcome.kind = "transport"
    /\ \E k \in Calls("insert_one") : log[k].pos = 2 /\ ~log[k].ok
    /\ Len(stdout) = 1

\* a required setting is unset or empty
SettingMissing ==
    \/ environ.HYPESCORE_API_KEY \in {None, <<>>}
    \/ environ.MONGO_URI \in {None, <<>>}

\* nothing outside the process has been touched, except the address sources
NoOutsideWork ==
    /\ \A k \in 1..Len(log) :
        log[k].op \notin {"connect", "get", "insert_one", "write_text",
                          "sleep", "print"}
    /\ Written = {}
    /\ db = <<>>
    /\ stdout = <<>>

\* what C7 says of the three fatal errors: a missing key or URI exits with 2
\* before anything is read or done; an empty resolved list exits with 2
\* before any connection or request; a failed connection exits with 3 before
\* any request, insert or write; these are the only ways to codes 2 and 3,
\* and code 0 is reached only through the report
C7_Fatal ==
    /\ SettingMissing =>
        /\ pc \in {"config", "exit"}
        /\ pc = "exit" => exit_code = 2
        /\ log = <<>> /\ addresses = <<>> /\ NoOutsideWork
    /\ (~SettingMissing /\ addresses = <<>>) =>
        /\ pc \in {"config", "main", "exit"}
        /\ pc = "exit" => exit_code = 2
        /\ NoOutsideWork
    /\ ConnectFailed =>
        /\ pc = "exit" /\ exit_code = 3
        /\ log[Len(log)].op = "connect"
        /\ Calls("get") \cup Calls("insert_one") \cup Calls("write_text") = {}
        /\ Written = {} /\ db = <<>> /\ stdout = <<>>
    /\ Calls("get") # {} => ConnectedOk
    /\ pc = "exit" =>
        /\ exit_code = 2 <=> (SettingMissing \/ addresses = <<>>)
        /\ exit_code = 3 <=> ConnectFailed
        /\ exit_code = 0 =>
            (~SettingMissing /\ addresses # <<>> /\ ConnectedOk /\ Reported)

\* C7 as stated: the three fatal errors stop the process as said, and a run
\* that passes the three checks and finishes the loop exits with 0.
C7_AsStated ==
    /\ C7_Fatal
    /\ (pc = "exit" /\ ConnectedOk /\ Reported) => exit_code = 0

\* C7, amended: the three fatal errors stop the process as said; a run that
\* passes the three checks and finishes the loop exits with 0 unless the
\* write of the combined file raises, which ends it with status 1 after the
\* report; the codes are 0, 1, 2 and 3, and 1 is the code of a run ended by
\* an exception nothing catches: an insert, a file write or a time.sleep
\* that raised.
C7_FatalErrorsStopEarly ==
    /\ C7_Fatal
    /\ pc = "exit" =>
        /\ exit_code \in {0, 1, 2, 3}
        /\ exit_code = 1 <=> (EndedByWrite \/ EndedBySleep \/ EndedByInsert)
        /\ (ConnectedOk /\ Reported) =>
            exit_code = IF EndedByWrite THEN 1 ELSE 0

\* the connection failed in a run that had addresses and an output path
C7_Witness ==
    /\ pc = "exit"
    /\ exit_code = 3
    /\ addresses # <<>>
    /\ Truthy(args.out)

\* the request at log position k raised, and the loop went on as after a
\* failure: no insert, no file and no sleep for its list position, and the
\* next call is the request for the next position or the final print
HandledAsFailure(k) ==
    /\ \A m \in 1..Len(log) :
        log[m].op \in {"insert_one", "write_text", "sleep"}
            => log[m].pos # log[k].pos
    /\ IF k = Len(log)
       THEN pc = "fetch" /\ i = log[k].pos + 1
       ELSE \/ log[k + 1].op = "get" /\ log[k + 1].pos = log[k].pos + 1
            \/ log[k + 1].op = "print" /\ log[k].pos = Len(addresses)

\* the record of the address requested at log position k, while no later
\* request for the same address has replaced it
RecordAfter(k) == DictGet(results, log[k].addr)
IsLatest(k) == LastGet(log[k].addr) = k

\* what C3 says of the requests answered with a status in Failing, and of
\* the requests that met a transport error
FetchFailures(Failing) ==
    \A k \in Calls("get") :
        LET o == log[k].outcome
        IN  /\ (o.kind = "response" /\ o.status \in Failing) =>
                /\ HandledAsFailure(k)
                /\ log[k].addr \in DictKeys(results)
                /\ IsLatest(k) =>
                    /\ DOMAIN RecordAfter(k) = {"error", "status_code"}
                    /\ RecordAfter(k).status_code = o.status
            /\ o.kind = "transport" =>
                /\ HandledAsFailure(k)
                /\ log[k].addr \in DictKeys(results)
                /\ IsLatest(k) => DOMAIN RecordAfter(k) = {"error"}

\* C3 as stated: a request answered with any non-2xx status s leaves the
\* record {error, status_code: s}, with no insert, no file and no sleep for
\* that address, and the loop moves on; a transport error leaves {error}.
C3_AsStated == FetchFailures(StatusCodes \ 200..299)

\* a finished run over one address whose request was answered 300 with a JSON
\* body: line 76 raised nothing, the body was inserted as the payload, the
\* sleep followed and the record is {ok: true}
C3_Witness ==
    /\ Finished
    /\ Len(addresses) = 1
    /\ \E k \in Calls("get") :
        /\ log[k].outcome.kind = "response"
        /\ log[k].outcome.status = 300
        /\ IsJson(log[k].outcome.body)
        /\ log[k + 1].op = "insert_one"
        /\ log[k + 1].ok
        /\ log[k + 1].doc.data = ParseJson(log[k].outcome.body)
        /\ \E m \in Calls("sleep") : log[m].pos = log[k].pos
    /\ DictGet(results, addresses[1]) = [ok |-> TRUE]

\* the record of the address whose insert is at log position k: {ok: true}
\* after a successful insert, {ok: false, mongo_error} after any failed one
InsertRecorded(k) ==
    LET a == addresses[log[k].pos]
    IN  /\ a \in DictKeys(results)
        /\ LastGet(a) < k =>
            IF log[k].ok THEN DictGet(results, a) = [ok |-> TRUE]
            ELSE /\ DOMAIN DictGet(results, a) = {"ok", "mongo_error"}
                 /\ DictGet(results, a).ok = FALSE
                 /\ DictGet(results, a).mongo_error = "PyMongoError"

\* the insert at log position k raised an exception that is no PyMongoError
Unhandled(k) == log[k].raised \notin {"ok", "PyMongoError"}

\* log entry m is the time.sleep of position p; it returned, or, with
\* mayRaise, it raised for a delay too large for it and ended the run
SleepCalled(m, p, mayRaise) ==
    /\ log[m].op = "sleep"
    /\ log[m].pos = p
    /\ log[m].secs = sleep_seconds(args.delay)
    /\ log[m].ok \/ (mayRaise /\ m = Len(log) /\ EndedBySleep)

\* what follows the insert at log position k: in directory mode the write of
\* <address>.json with the fetched payload, then the sleep; otherwise the
\* sleep.  With mayRaise the write or the sleep may raise, and then it ends
\* the run.
FileAndSleep(k, mayRaise) ==
    LET p == log[k].pos
        a == addresses[p]
    IN  /\ k = Len(log) =>
            /\ i = p
            /\ \/ pc = "save"
               \/ pc = "sleep" /\ ~DirectoryMode
               \/ mayRaise /\ DirectoryMode /\ EndedByWrite
        /\ (k < Len(log) /\ DirectoryMode) =>
            /\ log[k + 1].op = "write_text"
            /\ log[k + 1].pos = p
            /\ log[k + 1].path = PerAddressPath(a)
            /\ log[k + 1].text = dump_payload(log[k].doc.data)
            /\ IF log[k + 1].ok
               THEN /\ k + 1 = Len(log) =>
                        /\ pc = "sleep"
                        /\ OnDisk(PerAddressPath(a)) \in DOMAIN files
                        /\ files[OnDisk(PerAddressPath(a))]
                            = dump_payload(log[k].doc.data)
                    /\ k + 1 < Len(log) => SleepCalled(k + 2, p, mayRaise)
               ELSE mayRaise /\ k + 1 = Len(log) /\ EndedByWrite
        /\ (k < Len(log) /\ ~DirectoryMode) => SleepCalled(k + 1, p, mayRaise)

\* C4 as stated: a failed insert after a successful fetch leaves {ok: false,
\* mongo_error} in place of {ok: true}, the per-address file is still written
\* in directory mode and the sleep still happens; when both succeed the
\* record is {ok: true}.
C4_AsStated ==
    \A k \in Calls("insert_one") :
        /\ InsertRecorded(k)
        /\ ~log[k].ok => FileAndSleep(k, FALSE)

\* what the amended C4 says of every state
C4_State ==
    \A k \in Calls("insert_one") :
        IF Unhandled(k) THEN k = Len(log) /\ EndedByInsert
        ELSE InsertRecorded(k) /\ FileAndSleep(k, TRUE)

\* what C4 says of every step of an insert: the records of the other
\* addresses stay as they are
C4_Step ==
    pc = "store" =>
        /\ DictKeys(results') = DictKeys(results)
        /\ \A b \in DictKeys(results) \ {addresses[i]} :
            DictGet(results', b) = DictGet(results, b)

\* C4, amended: an insert that fails with a PyMongoError after a successful
\* fetch leaves {ok: false, mongo_error} in place of {ok: true}; the write of
\* the per-address file with the fetched payload is still the next step in
\* directory mode, and unless that write raises (which ends the run with
\* status 1) the file is on disk and time.sleep(max(0, delay)) is still
\* called, which returns unless the delay is too large for it (then it
\* raises and ends the run with status 1); the other addresses' records are
\* untouched; when both succeed the record is {ok: true}.  An insert that
\* raises anything else is not caught: the record stays {ok: true} and the
\* run ends there with status 1.
C4_InsertFailureIsRecorded == []C4_State /\ [][C4_Step]_vars

\* in directory mode the insert for the second address failed after the first
\* address had been recorded; its file was written and the sleep followed
C4_Witness ==
    /\ DirectoryMode
    /\ Len(results) = 2
    /\ \E k \in Calls("insert_one") :
        /\ ~log[k].ok
        /\ log[k].pos = 2
        /\ k + 2 <= Len(log)
        /\ log[k + 1].op = "write_text"
        /\ log[k + 1].ok
        /\ log[k + 2].op = "sleep"
        /\ log[k + 2].ok
        /\ DictGet(results, addresses[2]).ok = FALSE

\* the last component of the output path has no extension: it holds no ".",
\* or its last "." is its first or its last character
NoExtension(out) ==
    LET name == PathName(PurePath(out))
        dots == {d \in 1..Len(name) : name[d] = "."}
    IN  \A d \in dots : (\A e \in dots : e <= d) => d \in {1, Len(name)}

\* the last request for address a that returned a payload
LastFetched(a) ==
    CHOOSE k \in Calls("get") :
        /\ log[k].addr = a /\ Fetched(k)
        /\ \A m \in Calls("get") : (log[m].addr = a /\ Fetched(m)) => m <= k

\* what C8 says of every state, the creation of the directory left aside;
\* what it says of the files a run leaves is said of the runs that end with
\* exit code 0
C8_State ==
    \* the decision, read right after it is taken
    /\ pc = "connect" =>
        /\ is_out_dir =
            /\ Truthy(args.out)
            /\ \/ OnDisk(PurePath(args.out)) \in dirs
               \/ args.out[Len(args.out)] \in {"/", "\\"}
               \/ NoExtension(args.out)
        /\ Calls("get") = {}
    \* no output path: nothing is written
    /\ ~Truthy(args.out) => Written = {} /\ Calls("write_text") = {}
    \* directory mode: one file per fetched address, no combined file
    /\ DirectoryMode =>
        /\ \A k \in Calls("write_text") : log[k].pos > 0
        /\ OnDisk(PurePath(args.out)) \notin Written
        /\ Written = {OnDisk(log[k].path) :
                        k \in {m \in Calls("write_text") : log[m].ok}}
        /\ Finished =>
            /\ Written =
                {OnDisk(PerAddressPath(log[k].addr)) :
                    k \in {m \in Calls("get") : Fetched(m)}}
            /\ \A k \in Calls("get") :
                Fetched(k) =>
                    files[OnDisk(PerAddressPath(log[k].addr))]
                        = dump_payload(
                            ParseJson(log[LastFetched(log[k].addr)].outcome.body))
    \* file mode: no per-address file, one combined file written last, which
    \* parses to the mapping that was printed
    /\ (Truthy(args.out) /\ ~is_out_dir /\ pc \notin {"config", "main", "classify"}) =>
        /\ \A k \in Calls("write_text") : log[k].pos = 0 /\ k = Len(log)
        /\ (pc # "exit" \/ exit_code # 0) => Written = {}
        /\ Finished =>
            /\ Written = {OnDisk(PurePath(args.out))}
            /\ Cardinality(Calls("write_text")) = 1
            /\ log[Len(log)].ok
            /\ log[Len(log) - 1].op = "print"
            /\ json_loads(files[OnDisk(PurePath(args.out))]) = json_loads(stdout[1])
            /\ json_loads(files[OnDisk(PurePath(args.out))]) = AsMapping(results)

\* C8 as stated: the path is classified once before the loop (an existing
\* directory, a trailing separator or no extension make it a directory); in
\* directory mode the directory is created and holds one <address>.json per
\* fetched address with its payload, and no combined file; in file mode there
\* is no per-address file and one combined file, written last, that parses to
\* the printed mapping; with no path nothing is written.
C8_AsStated ==
    /\ C8_State
    /\ (DirectoryMode /\ Finished) => OnDisk(PurePath(args.out)) \in dirs

\* a finished run with --out res (no extension, not on disk before) in which
\* no request returned a payload: directory mode was decided, the report was
\* printed, the exit code is 0, and there is no directory res
C8_Witness ==
    /\ Finished
    /\ args.out = <<"r", "e", "s">>
    /\ is_out_dir
    /\ Calls("get") # {}
    /\ \A k \in Calls("get") : ~Fetched(k)
    /\ Len(stdout) = 1
    /\ dirs = {}
    /\ DOMAIN files = {}

\* what C9 says of every state: a fetched position gets one insert attempt,
\* directly after its request, a failed one gets none; every document is
\* {address, fetched_at, data} with the payload of its own request and the
\* one timestamp of the run; the collection holds the documents whose insert
\* succeeded, in order
RECURSIVE InsertedDocs(_)
InsertedDocs(k) ==
    IF k = 0 THEN <<>>
    ELSE IF log[k].op = "insert_one" /\ log[k].ok
         THEN Append(InsertedDocs(k - 1), log[k].doc)
         ELSE InsertedDocs(k - 1)

C9_State ==
    /\ \A k \in Calls("get") :
        LET attempts == {m \in Calls("insert_one") : log[m].pos = log[k].pos}
        IN  IF Fetched(k)
            THEN /\ k = Len(log) => pc = "store" /\ attempts = {}
                 /\ k < Len(log) => attempts = {k + 1}
            ELSE attempts = {}
    /\ \A m \in Calls("insert_one") :
        /\ log[m - 1].op = "get"
        /\ log[m - 1].pos = log[m].pos
        /\ Fetched(m - 1)
        /\ DOMAIN log[m].doc = {"address", "fetched_at", "data"}
        /\ log[m].doc.address = addresses[log[m].pos]
        /\ log[m].doc.data = ParseJson(log[m - 1].outcome.body)
        /\ log[m].doc.fetched_at = run_ts
        /\ \A n \in Calls("insert_one") :
            log[n].doc.fetched_at = log[m].doc.fetched_at
    /\ db = InsertedDocs(Len(log))

\* what C9 says of every step: the timestamp is sampled once, and documents
\* are only added
C9_Step ==
    /\ pc \in {"fetch", "store", "save", "sleep", "final"} => run_ts' = run_ts
    /\ Len(db') >= Len(db)
    /\ SubSeq(db', 1, Len(db)) = db

\* C9: one insert attempt per successful fetch and none after a failed one;
\* every document is {address, fetched_at, data} with the unmodified payload
\* of its own fetch and a timestamp that is the same for the whole run; no
\* document is ever changed or removed.
C9_OneInsertPerFetch == []C9_State /\ [][C9_Step]_vars

\* two documents with different payloads and the same timestamp, inserted at
\* different times
C9_Witness ==
    /\ Len(db) = 2
    /\ db[1].data # db[2].data
    /\ db[1].fetched_at = db[2].fetched_at
    /\ now >= run_ts + 2

\* log entry k is the call op for list position p
IsCall(k, op, p) == log[k].op = op /\ log[k].pos = p

\* after entry k for position p the loop moves on: the next entry is the
\* request for position p + 1, or the print of the report when p is the last
MovesOn(k, p) ==
    IF p < Len(addresses)
    THEN /\ k = Len(log) => pc = "fetch" /\ i = p + 1
         /\ k < Len(log) => IsCall(k + 1, "get", p + 1)
    ELSE /\ k = Len(log) => pc = "fetch" /\ i = p + 1
         /\ k < Len(log) => log[k + 1].op = "print"

\* what C10 says of every state, read off the sequence of outside calls
C10_State ==
    \A k \in 1..Len(log) :
        LET e == log[k] IN
        CASE e.op = "connect" ->
                (e.ok /\ k < Len(log)) => IsCall(k + 1, "get", 1)
          [] e.op = "get" ->
                \* the j-th request is for the j-th entry of the list
                /\ e.pos = Cardinality({m \in Calls("get") : m <= k})
                /\ e.addr = addresses[e.pos]
                /\ IF Fetched(k)
                   THEN k < Len(log) => IsCall(k + 1, "insert_one", e.pos)
                   ELSE handled(get_token_details(e.outcome)) => MovesOn(k, e.pos)
          [] e.op = "insert_one" ->
                /\ IsCall(k - 1, "get", e.pos)
                /\ k < Len(log) =>
                    IF DirectoryMode
                    THEN IsCall(k + 1, "write_text", e.pos)
                    ELSE IsCall(k + 1, "sleep", e.pos)
                /\ (k = Len(log) /\ pc = "exit") =>
                        EndedByWrite \/ EndedByInsert
          [] e.op = "write_text" /\ e.pos > 0 ->
                /\ IsCall(k - 1, "insert_one", e.pos)
                /\ e.path = PerAddressPath(addresses[e.pos])
                /\ IF e.ok
                   THEN k < Len(log) => IsCall(k + 1, "sleep", e.pos)
                   ELSE k = Len(log) /\ EndedByWrite
          [] e.op = "sleep" ->
                /\ e.secs >= 0 /\ e.secs >= args.delay
                /\ e.secs \in {0, args.delay}
                /\ log[k - 1].op \in {"insert_one", "write_text"}
                /\ log[k - 1].op = "write_text" => log[k - 1].ok
                /\ log[k - 1].pos = e.pos
                /\ IF e.ok THEN MovesOn(k, e.pos)
                   ELSE k = Len(log) /\ EndedBySleep
          [] e.op = "print" ->
                /\ \A p \in 1..Len(addresses) : \E m \in 1..(k - 1) : IsCall(m, "get", p)
                /\ \A m \in (k + 1)..Len(log) : IsCall(m, "write_text", 0)
          [] OTHER -> TRUE

\* C10 as stated: the order above, and once the loop has started every
\* position of the list is requested exactly once and every fetched position
\* gets its sleep
C10_AsStated ==
    /\ C10_State
    /\ (pc = "exit" /\ ConnectedOk) =>
        /\ \A p \in 1..Len(addresses) :
                Cardinality({k \in Calls("get") : log[k].pos = p}) = 1
        /\ \A k \in Calls("insert_one") :
                \E m \in Calls("sleep") :
                    m > k /\ log[m].pos = log[k].pos /\ log[m].ok

\* C10, amended: the addresses are handled strictly one after the other in
\* list order, no position twice; for a fetched position the calls are fetch,
\* then insert, then the per-address file (directory mode only), then
\* time.sleep(max(0, delay)), and only then the next fetch; a failed fetch is
\* followed at once by the next fetch; every per-address file is written
\* before any later fetch and before the report is printed.  A run that
\* prints the report has handled every position.  A run that an exception
\* nothing catches ends inside the loop stops at the call that raised (an
\* insert, a per-address file write or a time.sleep): no call of the loop
\* follows it and no later position is requested.
C10_StrictOrder ==
    /\ C10_State
    /\ \A p \in 1..Len(addresses) :
        Cardinality({k \in Calls("get") : log[k].pos = p})
            \in IF Reported THEN {1} ELSE {0, 1}
    /\ (pc = "exit" /\ ConnectedOk /\ ~Reported) =>
        /\ EndedInLoop
        /\ log[Len(log)].op \in {"insert_one", "write_text", "sleep"}
        /\ log[Len(log)].pos = i
        /\ \A k \in Calls("get") : log[k].pos <= i

\* a finished run in directory mode over two addresses, both fetched: the
\* calls of the loop are get, insert, write, sleep, twice over, then the print
C10_Witness ==
    /\ Finished
    /\ DirectoryMode
    /\ Len(addresses) = 2
    /\ \E k \in 1..Len(log) :
        /\ k + 8 = Len(log)
        /\ IsCall(k, "get", 1) /\ IsCall(k + 1, "insert_one", 1)
        /\ IsCall(k + 2, "write_text", 1) /\ IsCall(k + 3, "sleep", 1)
        /\ IsCall(k + 4, "get", 2) /\ IsCall(k + 5, "insert_one", 2)
        /\ IsCall(k + 6, "write_text", 2) /\ IsCall(k + 7, "sleep", 2)
        /\ log[k + 8].op = "print"
        /\ log[k + 3].secs = 1

====
